---------------------------- MODULE Spec2Model ----------------------------
(***************************************************************************)
(* Task timeline (Gantt) viewer.                                           *)
(*                                                                         *)
(* The module models                                                       *)
(*   - the ordering / outline / geometry functions of the Gantt App        *)
(*     (src/unnamed/part_000: parseDate, compareTasks, buildTaskRows,      *)
(*     getTaskRange and the useMemo blocks taskIndexById, timelineRange,   *)
(*     timelineTicks, dependencyLines and the gantt__bars render loop),    *)
(*     the traversal of buildTaskRows call by call, and                    *)
(*   - the request / response protocol of the task list App                *)
(*     (src/src/App.tsx: the projects effect, the tasks effect,            *)
(*     handleLoadAllProjects).                                             *)
(*                                                                         *)
(* Nullable values (string | null, number | null, Date | null) are         *)
(* options: <<>> is null, <<v>> is the value v.  Strings that the code     *)
(* builds or compares character by character (hierarchical numbers, line   *)
(* ids, task names) are sequences of characters / UTF-16 code units.       *)
(***************************************************************************)
EXTENDS Integers, Sequences, FiniteSets, TLC

VARIABLES
    tasks,            \* useState<Task[]>            part_000:67, App.tsx:15
    timelineWidth,    \* useState(0)                 part_000:74
    pc,               \* "input": snapshot handed over, "visiting": buildTaskRows is
                      \* running, "rendered": memos computed
    taskRows,         \* useMemo buildTaskRows       part_000:154
    callStack,        \* the forEach loops of buildTaskRows in progress, innermost last
    timelineRange,    \* useMemo timelineRange       part_000:161
    timelineTicks,    \* useMemo timelineTicks       part_000:173
    bars,             \* gantt__bars, one per row    part_000:365
    dependencyLines,  \* useMemo dependencyLines     part_000:188
    projects,         \* useState<Project[]> (the ids)          App.tsx:14
    selectedProjectId,\* useState<number | null>                App.tsx:16
    projectsError,    \* useState<string | null>                App.tsx:17
    tasksError,       \* useState<string | null>                App.tsx:18
    isProjectsLoading,\* useState(false), true once mounted     App.tsx:19
    isTasksLoading,   \* useState(false)                        App.tsx:20
    allTasksByProject,\* useState<Record<number, Task[]>>       App.tsx:21
    isAllLoading,     \* useState(false)                        App.tsx:22
    allError,         \* useState<string | null>                App.tsx:23
    allRequestId,     \* useRef(0)                              App.tsx:24
    projectsRequest,  \* the getProjects() call of the mount effect: its position
    taskRequests,     \* the getProjectTasks() calls of the tasks effect, in start order
    allRequests       \* the handleLoadAllProjects calls, in start order

engineVars == <<tasks, timelineWidth, pc, taskRows, callStack, timelineRange, timelineTicks, bars,
                dependencyLines>>

fetchVars == <<projects, selectedProjectId, projectsError, tasksError, isProjectsLoading,
               isTasksLoading, allTasksByProject, isAllLoading, allError, allRequestId,
               projectsRequest, taskRequests, allRequests>>

vars == <<engineVars, fetchVars>>

-----------------------------------------------------------------------------
(* Bounds of the model *)

\* Largest number of tasks in one collection.
MaxTasks == 3

-----------------------------------------------------------------------------
(* Options and small helpers *)

None == <<>>
Some(v) == <<v>>
IsSome(o) == o # <<>>
Val(o) == o[1]

SetMin(S) == CHOOSE x \in S : \A y \in S : x <= y
SetMax(S) == CHOOSE x \in S : \A y \in S : x >= y

Digits == <<"0", "1", "2", "3", "4", "5", "6", "7", "8", "9">>

\* Template-literal formatting of a non-negative integer: `${n}`.
RECURSIVE ToStr(_)
ToStr(n) == IF n < 10 THEN <<Digits[n + 1]>>
            ELSE ToStr(n \div 10) \o <<Digits[(n % 10) + 1]>>

-----------------------------------------------------------------------------
(* Dates *)

\* new Date(value).getTime() for the date strings of the model; a string
\* outside the table is not a date (NaN).  Two different strings denote the
\* same instant, so parsing is not injective.
DateTable ==
    [s \in {"1970-01-01T00:00:00.001Z", "1970-01-01T00:00:00.001+00:00",
            "1970-01-01T00:00:00.002Z", "1970-01-01T00:00:00.200Z"} |->
        CASE s = "1970-01-01T00:00:00.001Z"      -> 1
          [] s = "1970-01-01T00:00:00.001+00:00" -> 1
          [] s = "1970-01-01T00:00:00.002Z"      -> 2
          [] s = "1970-01-01T00:00:00.200Z"      -> 200]

\* parseDate: null for null, for the empty string and for an invalid date,
\* else the Date (its getTime() in ms).
parseDate(value) ==
    IF value = None \/ Val(value) = "" THEN None
    ELSE IF Val(value) \in DOMAIN DateTable THEN Some(DateTable[Val(value)])
    ELSE None

-----------------------------------------------------------------------------
(* Names and String.prototype.localeCompare *)

IsUpper(c) == c \in 65..90
PrimaryKey(name) == [i \in 1..Len(name) |-> IF IsUpper(name[i]) THEN name[i] + 32 ELSE name[i]]
TertiaryKey(name) == [i \in 1..Len(name) |-> IF IsUpper(name[i]) THEN 1 ELSE 0]

\* Lexicographic comparison of two integer sequences: -1, 0 or 1.
SeqCompare(x, y) ==
    LET n == IF Len(x) < Len(y) THEN Len(x) ELSE Len(y)
        diffs == {i \in 1..n : x[i] # y[i]}
    IN  IF diffs # {}
        THEN IF x[SetMin(diffs)] < y[SetMin(diffs)] THEN -1 ELSE 1
        ELSE IF Len(x) < Len(y) THEN -1
        ELSE IF Len(x) > Len(y) THEN 1
        ELSE 0

\* a.localeCompare(b) on names of ASCII letters under the default (root)
\* collation: letters first, case only as a tie-break, lower case first.
localeCompare(a, b) ==
    LET p == SeqCompare(PrimaryKey(a), PrimaryKey(b))
    IN  IF p # 0 THEN p ELSE SeqCompare(TertiaryKey(a), TertiaryKey(b))

-----------------------------------------------------------------------------
(* compareTasks and the sibling sort *)

\* Number.POSITIVE_INFINITY: larger than every time of the model.
POSITIVE_INFINITY == 1000000

\* Variant: an unscheduled start counts as 0 (`?? 0`), not as +Infinity.
StartOrZero(t) ==
    IF IsSome(parseDate(t.startDate)) THEN Val(parseDate(t.startDate))
    ELSE 0

\* parseDate(t.startDate)?.getTime() ?? Number.POSITIVE_INFINITY
StartOrInfinity(t) ==
    IF IsSome(parseDate(t.startDate)) THEN Val(parseDate(t.startDate))
    ELSE POSITIVE_INFINITY

\* x - y where x, y are finite or +Infinity and x # y.
Minus(x, y) ==
    IF x = POSITIVE_INFINITY THEN POSITIVE_INFINITY
    ELSE IF y = POSITIVE_INFINITY THEN -POSITIVE_INFINITY
    ELSE x - y

\* Variant: the name tie-break is missing.
compareTasksStartOnly(a, b) ==
    LET aStart == StartOrInfinity(a)
        bStart == StartOrInfinity(b)
    IN  IF aStart # bStart THEN Minus(aStart, bStart) ELSE 0

compareTasks(a, b) ==
    LET aStart == StartOrInfinity(a)
        bStart == StartOrInfinity(b)
    IN  IF aStart # bStart THEN Minus(aStart, bStart)
        ELSE localeCompare(a.name, b.name)

\* Array.prototype.sort(compareTasks): a stable sort.  Each element is
\* inserted behind every element that does not compare greater than it.
InsertSorted(sorted, x) ==
    LET after == {i \in 1..Len(sorted) : compareTasks(sorted[i], x) > 0}
        at == IF after = {} THEN Len(sorted) + 1 ELSE SetMin(after)
    IN  SubSeq(sorted, 1, at - 1) \o <<x>> \o SubSeq(sorted, at, Len(sorted))

RECURSIVE SortTasks(_)
SortTasks(s) ==
    IF s = <<>> THEN <<>>
    ELSE InsertSorted(SortTasks(SubSeq(s, 1, Len(s) - 1)), s[Len(s)])

-----------------------------------------------------------------------------
(* buildTaskRows *)

\* byParent.get(key) ?? []: the tasks whose parentTaskId is key, in input order.
byParent(ts, key) == SelectSeq(ts, LAMBDA t : t.parentTaskId = key)

\* The children of a visited task, sorted.
childrenOf(ts, task) == SortTasks(byParent(ts, Some(task.id)))

\* Variant: the traversal starts from every task.
rootsOfEveryTask(ts) == SortTasks(ts)

\* Variant: a task whose parent is not in the collection is taken as a root.
rootsOfPromotingOrphans(ts) ==
    SortTasks(SelectSeq(ts, LAMBDA t :
        \/ t.parentTaskId = None
        \/ \A j \in 1..Len(ts) : ts[j].id # Val(t.parentTaskId)))

\* The roots, sorted.
rootsOf(ts) == SortTasks(byParent(ts, None))

\* Variant: the 0-based index is used as the sibling position.
childNumberZeroBased(number, index) == number \o <<".">> \o ToStr(index)

\* `${number}.${index + 1}` for the child at 0-based position index.
childNumber(number, index) == number \o <<".">> \o ToStr(index + 1)

\* `${index + 1}` for the root at 0-based position index.
rootNumber(index) == ToStr(index + 1)

RECURSIVE visit(_, _, _, _)
RECURSIVE visitChildren(_, _, _, _, _)

\* Variant: the children are visited at the depth of their parent.
visitSameDepth(ts, task, depth, number) ==
    <<[task |-> task, depth |-> depth, number |-> number]>>
        \o visitChildren(ts, childrenOf(ts, task), 0, depth, number)

\* visit: push the row, then visit the sorted children in order.
visit(ts, task, depth, number) ==
    <<[task |-> task, depth |-> depth, number |-> number]>>
        \o visitChildren(ts, childrenOf(ts, task), 0, depth + 1, number)

\* children.forEach((child, index) => visit(child, depth + 1, ...)) from index on.
visitChildren(ts, children, index, depth, number) ==
    IF index >= Len(children) THEN <<>>
    ELSE visit(ts, children[index + 1], depth, childNumber(number, index))
            \o visitChildren(ts, children, index + 1, depth, number)

\* roots.forEach((root, index) => visit(root, 0, `${index + 1}`)) from index on.
RECURSIVE visitRoots(_, _, _)
visitRoots(ts, roots, index) ==
    IF index >= Len(roots) THEN <<>>
    ELSE visit(ts, roots[index + 1], 0, rootNumber(index))
            \o visitRoots(ts, roots, index + 1)

buildTaskRows(ts) == visitRoots(ts, rootsOf(ts), 0)

-----------------------------------------------------------------------------
(* getTaskRange, timelineRange *)

\* Variant: a due date alone forms a range (`start ?? due` on both ends).
getTaskRangeDueAlone(task) ==
    LET due == parseDate(task.dueDate)
        start == IF IsSome(parseDate(task.startDate)) THEN parseDate(task.startDate) ELSE due
        end == IF IsSome(due) THEN due ELSE start
    IN  IF start = None \/ end = None THEN None
        ELSE Some([start |-> Val(start), end |-> Val(end)])

\* getTaskRange: null unless the start date resolves; the end is the resolved
\* due date, or the start when the due date does not resolve.
getTaskRange(task) ==
    LET start == parseDate(task.startDate)
        end == IF IsSome(parseDate(task.dueDate)) THEN parseDate(task.dueDate) ELSE start
    IN  IF start = None \/ end = None THEN None
        ELSE Some([start |-> Val(start), end |-> Val(end)])

\* tasks.map(getTaskRange).filter(Boolean)
taskRanges(ts) ==
    LET mapped == [i \in 1..Len(ts) |-> getTaskRange(ts[i])]
        kept == SelectSeq(mapped, LAMBDA r : r # None)
    IN  [i \in 1..Len(kept) |-> Val(kept[i])]

\* Math.min(...xs) and Math.max(...xs) of a non-empty list, left to right.
RECURSIVE MathMin(_)
MathMin(xs) ==
    IF Len(xs) = 1 THEN xs[1]
    ELSE LET m == MathMin(SubSeq(xs, 1, Len(xs) - 1))
         IN  IF xs[Len(xs)] < m THEN xs[Len(xs)] ELSE m

RECURSIVE MathMax(_)
MathMax(xs) ==
    IF Len(xs) = 1 THEN xs[1]
    ELSE LET m == MathMax(SubSeq(xs, 1, Len(xs) - 1))
         IN  IF xs[Len(xs)] > m THEN xs[Len(xs)] ELSE m

\* Variant: the `ranges.length === 0` guard is dropped, so Math.min() and
\* Math.max() of no arguments (Infinity, -Infinity) form a range.
computeTimelineRangeUnguarded(ts) ==
    LET ranges == taskRanges(ts)
    IN  IF Len(ranges) = 0
        THEN Some([startMs |-> POSITIVE_INFINITY, endMs |-> 0 - POSITIVE_INFINITY])
        ELSE Some([startMs |-> MathMin([i \in 1..Len(ranges) |-> ranges[i].start]),
                   endMs   |-> MathMax([i \in 1..Len(ranges) |-> ranges[i].end])])

\* The timelineRange memo: null when no task has a range.
computeTimelineRange(ts) ==
    LET ranges == taskRanges(ts)
    IN  IF Len(ranges) = 0 THEN None
        ELSE Some([startMs |-> MathMin([i \in 1..Len(ranges) |-> ranges[i].start]),
                   endMs   |-> MathMax([i \in 1..Len(ranges) |-> ranges[i].end])])

\* Math.max(1, timelineRange.endMs - timelineRange.startMs): the divisor.
rangeMsOf(range) ==
    IF range.endMs - range.startMs > 1 THEN range.endMs - range.startMs ELSE 1

-----------------------------------------------------------------------------
(* timelineTicks.  A quotient n / d of the code is kept exact as the        *)
(* fraction [num |-> n, den |-> d] with d > 0.                             *)

Frac(n, d) == [num |-> n, den |-> d]

tickCount == 4

\* formatShortDate of a Date: toLocaleDateString with a short month and a
\* numeric day.  Rendered for an English locale in UTC; the instants of the
\* model lie in January 1970, so the label is the month and the day number
\* (a day has 86400000 ms).
formatShortDate(ms) == <<"Jan", " ">> \o ToStr(ms \div 86400000 + 1)

\* The timelineTicks memo: no ticks without a range, else tickCount + 1 ticks
\* at the ratios i / tickCount.  new Date(x) drops the fraction of x.
computeTimelineTicks(range) ==
    IF range = None THEN <<>>
    ELSE LET rangeMs == rangeMsOf(Val(range))
         IN  [n \in 1..(tickCount + 1) |->
                [label |-> formatShortDate(Val(range).startMs
                                             + (rangeMs * (n - 1)) \div tickCount),
                 position |-> Frac((n - 1) * 100, tickCount)]]

-----------------------------------------------------------------------------
(* Bars and dependency lines *)

ROW_HEIGHT == 48

\* Variant: the width is not floored.
barWidthUnclamped(width) == width

\* Math.max(width, 1)
barWidthOf(width) == IF width.num >= width.den THEN width ELSE Frac(1, 1)

\* One element of gantt__bars: a bare placeholder when the task has no range
\* or there is no timeline range, else a bar with top, left and width.
barOf(task, index, range) ==
    LET taskRange == getTaskRange(task)
    IN  IF taskRange = None \/ range = None
        THEN [id |-> task.id, geometry |-> FALSE]
        ELSE LET rangeMs == rangeMsOf(Val(range))
                 left == Frac((Val(taskRange).start - Val(range).startMs) * 100, rangeMs)
                 width == Frac((Val(taskRange).end - Val(taskRange).start) * 100, rangeMs)
             IN  [id |-> task.id, geometry |-> TRUE,
                  top |-> index * ROW_HEIGHT + (ROW_HEIGHT \div 2) - 8,
                  left |-> left, width |-> barWidthOf(width)]

computeBars(rows, range) ==
    [i \in 1..Len(rows) |-> barOf(rows[i].task, i - 1, range)]

\* The taskIndexById memo: task id -> 0-based row index (the last row wins).
taskIndexById(rows) ==
    [id \in {rows[i].task.id : i \in 1..Len(rows)} |->
        SetMax({i \in 1..Len(rows) : rows[i].task.id = id}) - 1]

\* Variant: the x coordinate is a percentage, as for the bars.
toXPercent(ms, range, width) == Frac((ms - range.startMs) * 100, rangeMsOf(range))

\* toX(date) and toY(index)
toX(ms, range, width) == Frac((ms - range.startMs) * width, rangeMsOf(range))
toY(index) == index * ROW_HEIGHT + (ROW_HEIGHT \div 2)

\* Variant: the width is not looked at.
linesSuppressedWithoutRangeOnly(range, width) == range = None

\* The guard of dependencyLines: no range or a zero width yields no lines.
linesSuppressed(range, width) == range = None \/ width = 0

\* The lines one row contributes, for its dependsOn entries from position k on.
RECURSIVE linesOfRow(_, _, _, _, _)
linesOfRow(rows, rowIndex, k, range, width) ==
    LET task == rows[rowIndex + 1].task
        taskRange == getTaskRange(task)
    IN  IF taskRange = None \/ k > Len(task.dependsOn) THEN <<>>
        ELSE LET dependencyId == task.dependsOn[k]
                 index == taskIndexById(rows)
                 rest == linesOfRow(rows, rowIndex, k + 1, range, width)
             IN  IF dependencyId \notin DOMAIN index THEN rest
                 ELSE LET dependencyIndex == index[dependencyId]
                          dependencyRange == getTaskRange(rows[dependencyIndex + 1].task)
                      IN  IF dependencyRange = None THEN rest
                          ELSE <<[id |-> ToStr(dependencyId) \o <<"-">> \o ToStr(task.id),
                                  x1 |-> toX(Val(dependencyRange).end, range, width),
                                  y1 |-> toY(dependencyIndex),
                                  x2 |-> toX(Val(taskRange).start, range, width),
                                  y2 |-> toY(rowIndex)]>> \o rest

\* taskRows.forEach((row, rowIndex) => ...) from rowIndex on.
RECURSIVE linesFrom(_, _, _, _)
linesFrom(rows, rowIndex, range, width) ==
    IF rowIndex >= Len(rows) THEN <<>>
    ELSE linesOfRow(rows, rowIndex, 1, range, width)
            \o linesFrom(rows, rowIndex + 1, range, width)

\* Variant: of the lines with one id only the first is kept.
computeDependencyLinesDistinct(rows, range, width) ==
    IF linesSuppressed(range, width) THEN <<>>
    ELSE LET lines == linesFrom(rows, 0, Val(range), width)
             kept == {n \in 1..Len(lines) : \A m \in 1..(n - 1) : lines[m].id # lines[n].id}
         IN  [q \in 1..Cardinality(kept) |->
                lines[CHOOSE n \in kept : Cardinality({m \in kept : m <= n}) = q]]

computeDependencyLines(rows, range, width) ==
    IF linesSuppressed(range, width) THEN <<>>
    ELSE linesFrom(rows, 0, Val(range), width)

-----------------------------------------------------------------------------
(* Input collections *)

\* A parent id that no task of a collection carries.
DanglingId == 99

TaskIds == 1..MaxTasks

\* The name strings of the model, as UTF-16 code units: "a" and "B" (in code
\* unit order "B" comes first, in collation order "a").
NameA == <<97>>
NameB == <<66>>

\* The tasks whose fields are drawn from the given sets (the id is set by
\* the position in the collection).
TaskChoices(parents, names, starts, dues, deps) ==
    {[id |-> 0, projectId |-> 1, name |-> n, parentTaskId |-> p,
      dependsOn |-> d, startDate |-> s, dueDate |-> e] :
        p \in parents, n \in names, s \in starts, e \in dues, d \in deps}

\* c is a collection of at most MaxTasks tasks with the unique ids 1..Len(c).
IsCollection(c, parents, names, starts, dues, deps) ==
    \E k \in 0..MaxTasks :
        \E f \in [1..k -> TaskChoices(parents, names, starts, dues, deps)] :
            c = [i \in 1..k |-> [f[i] EXCEPT !.id = i]]

AnyParent == {None, Some(DanglingId)} \cup {Some(i) : i \in TaskIds}

Date1 == "1970-01-01T00:00:00.001Z"
Date1Offset == "1970-01-01T00:00:00.001+00:00"
Date2 == "1970-01-01T00:00:00.002Z"
Date200 == "1970-01-01T00:00:00.200Z"

-----------------------------------------------------------------------------
(* Rendering a snapshot: every memo is recomputed from tasks and the width *)

Render ==
    /\ pc = "input"
    /\ pc' = "rendered"
    /\ taskRows' = buildTaskRows(tasks)
    /\ timelineRange' = computeTimelineRange(tasks)
    /\ timelineTicks' = computeTimelineTicks(timelineRange')
    /\ bars' = computeBars(taskRows', timelineRange')
    /\ dependencyLines' = computeDependencyLines(taskRows', timelineRange', timelineWidth)
    /\ UNCHANGED <<tasks, timelineWidth, callStack>>
    /\ UNCHANGED fetchVars

\* The snapshot was handed over by a fetch layer that is at rest.
FetchAtRest ==
    /\ projects = <<>>
    /\ selectedProjectId = None
    /\ projectsError = None
    /\ tasksError = None
    /\ isProjectsLoading = FALSE
    /\ isTasksLoading = FALSE
    /\ allTasksByProject = <<>>
    /\ isAllLoading = FALSE
    /\ allError = None
    /\ allRequestId = 0
    /\ projectsRequest = "done"
    /\ taskRequests = <<>>
    /\ allRequests = <<>>

\* Before the first render of a snapshot nothing is derived yet.
NothingRendered ==
    /\ pc = "input"
    /\ taskRows = <<>>
    /\ callStack = <<>>
    /\ timelineRange = None
    /\ timelineTicks = <<>>
    /\ bars = <<>>
    /\ dependencyLines = <<>>
    /\ FetchAtRest

\* Outline inputs: every parent reference (none, any id, a dangling id),
\* two names, a scheduled and an unscheduled start.
InitRows ==
    /\ IsCollection(tasks, AnyParent, {NameA, NameB},
                    {None, Some(Date1)}, {None}, {<<>>})
    /\ timelineWidth = 0
    /\ NothingRendered

SpecRows == InitRows /\ [][Render]_vars

\* Ordering inputs: roots and children of task 1; names in both cases; start
\* dates that are absent, invalid, equal as instants but not as strings, and
\* different.
InitOrder ==
    /\ IsCollection(tasks, {None, Some(1)}, {NameA, NameB},
                    {None, Some("not a date"), Some(Date1), Some(Date1Offset),
                     Some(Date2)}, {None}, {<<>>})
    /\ timelineWidth = 0
    /\ NothingRendered

SpecOrder == InitOrder /\ [][Render]_vars

\* Range inputs: rooted and dangling tasks; start dates absent or valid; due
\* dates absent, empty, invalid, equal to, before and after the start.
InitRange ==
    /\ IsCollection(tasks, {None, Some(DanglingId)}, {NameA},
                    {None, Some(Date1), Some(Date2)},
                    {None, Some(""), Some("not a date"), Some(Date1Offset),
                     Some(Date2), Some(Date200)}, {<<>>})
    /\ timelineWidth = 0
    /\ NothingRendered

SpecRange == InitRange /\ [][Render]_vars

\* The dependsOn lists of the model: empty, one id, two ids out of id order,
\* a repeated id, an id no task carries.
DepLists == {<<>>, <<1>>, <<2, 1>>, <<2, 2>>, <<DanglingId, 3>>}

\* The widths the dependencyLines memo may be handed: 0, the initial value
\* kept until the resize observer (part_000:139-143) reports one, or 100 px.
Widths == {0, 100}

\* Dependency inputs: rooted and dangling tasks, scheduled and unscheduled
\* starts, every dependsOn list, both widths.
InitDeps ==
    /\ IsCollection(tasks, {None, Some(DanglingId)}, {NameA},
                    {None, Some(Date1)}, {None}, DepLists)
    /\ timelineWidth \in Widths
    /\ NothingRendered

SpecDeps == InitDeps /\ [][Render]_vars

\* Inputs around the collection without any resolvable start: roots, children
\* of task 1 and dangling tasks; start dates absent, invalid or valid; due
\* dates absent or valid; tasks with and without dependencies; a measured
\* width.
InitUnscheduled ==
    /\ IsCollection(tasks, {None, Some(1), Some(DanglingId)}, {NameA},
                    {None, Some("not a date"), Some(Date1)},
                    {None, Some(Date200)}, {<<>>, <<2, 1>>})
    /\ timelineWidth = 100
    /\ NothingRendered

SpecUnscheduled == InitUnscheduled /\ [][Render]_vars

\* The widths a resize may report.
MeasuredWidths == {50, 100}

\* Geometry inputs: roots and children of task 1; two start dates; due dates
\* absent, before, at and after a start; tasks with and without dependencies;
\* two measured widths.
InitGeometry ==
    /\ IsCollection(tasks, {None, Some(1)}, {NameA}, {Some(Date1), Some(Date2)},
                    {None, Some(Date1Offset), Some(Date200)}, {<<>>, <<2, 1>>})
    /\ timelineWidth \in MeasuredWidths
    /\ NothingRendered

SpecGeometry == InitGeometry /\ [][Render]_vars

\* Line order inputs: roots and children of task 1; start dates absent or one
\* of two, so that the row order differs from the input order; every
\* dependsOn list of more than one id, or none; a measured width.
InitLineOrder ==
    /\ IsCollection(tasks, {None, Some(1)}, {NameA},
                    {None, Some(Date1), Some(Date2)}, {None}, DepLists \ {<<1>>})
    /\ timelineWidth = 100
    /\ NothingRendered

SpecLineOrder == InitLineOrder /\ [][Render]_vars

-----------------------------------------------------------------------------
(* buildTaskRows call by call.  callStack holds the forEach loops that are  *)
(* in progress: the list looped over, the index of the next element, the   *)
(* depth of its elements and the number of the task whose children they    *)
(* are (null for the loop over the roots).  taskRows is the rows array      *)
(* while it is filled.                                                     *)

\* The `${index + 1}` or `${number}.${index + 1}` argument of a call.
numberOfCall(frame) ==
    IF frame.number = None THEN rootNumber(frame.index)
    ELSE childNumber(Val(frame.number), frame.index)

\* The forEach callback calls visit for the next element: the row is pushed
\* and the loop over the element's sorted children starts.
VisitCall ==
    /\ pc = "visiting"
    /\ callStack # <<>>
    /\ LET top == callStack[Len(callStack)]
       IN  /\ top.index < Len(top.children)
           /\ LET task == top.children[top.index + 1]
                  number == numberOfCall(top)
              IN  /\ taskRows' = Append(taskRows, [task |-> task, depth |-> top.depth,
                                                    number |-> number])
                  /\ callStack' = Append([callStack EXCEPT ![Len(callStack)].index = @ + 1],
                                         [children |-> childrenOf(tasks, task), index |-> 0,
                                          depth |-> top.depth + 1, number |-> Some(number)])
    /\ UNCHANGED <<tasks, timelineWidth, pc, timelineRange, timelineTicks, bars,
                   dependencyLines>>
    /\ UNCHANGED fetchVars

\* A forEach loop has no element left: it ends and its caller goes on.
VisitReturn ==
    /\ pc = "visiting"
    /\ callStack # <<>>
    /\ callStack[Len(callStack)].index >= Len(callStack[Len(callStack)].children)
    /\ callStack' = SubSeq(callStack, 1, Len(callStack) - 1)
    /\ UNCHANGED <<tasks, timelineWidth, pc, taskRows, timelineRange, timelineTicks, bars,
                   dependencyLines>>
    /\ UNCHANGED fetchVars

\* The loop over the roots has ended: buildTaskRows returns rows and the
\* other memos are computed from them.
ReturnRows ==
    /\ pc = "visiting"
    /\ callStack = <<>>
    /\ pc' = "rendered"
    /\ timelineRange' = computeTimelineRange(tasks)
    /\ timelineTicks' = computeTimelineTicks(timelineRange')
    /\ bars' = computeBars(taskRows, timelineRange')
    /\ dependencyLines' = computeDependencyLines(taskRows, timelineRange', timelineWidth)
    /\ UNCHANGED <<tasks, timelineWidth, taskRows, callStack>>
    /\ UNCHANGED fetchVars

\* Traversal inputs: every parent reference (none, any id, own id, a dangling
\* id); buildTaskRows has been called and is about to loop over the roots.
InitVisit ==
    /\ IsCollection(tasks, AnyParent, {NameA}, {None}, {None}, {<<>>})
    /\ timelineWidth = 0
    /\ pc = "visiting"
    /\ taskRows = <<>>
    /\ callStack = <<[children |-> rootsOf(tasks), index |-> 0, depth |-> 0,
                      number |-> None]>>
    /\ timelineRange = None
    /\ timelineTicks = <<>>
    /\ bars = <<>>
    /\ dependencyLines = <<>>
    /\ FetchAtRest

NextVisit ==
    \/ VisitCall
    \/ VisitReturn
    \/ ReturnRows

SpecVisit == InitVisit /\ [][NextVisit]_vars

\* The JavaScript engine runs a call that is in progress to its next step.
SpecVisitFair == SpecVisit /\ WF_vars(NextVisit)

-----------------------------------------------------------------------------
(* The request / response protocol of the App (src/src/App.tsx).  The Gantt *)
(* App runs the same tasks effect (part_000:105-133) and re-renders its     *)
(* memos whenever setTasks stores a response.                               *)

\* Most task requests one run starts, and most load-all calls.
MaxRequests == 4
MaxLoadAll == 2

\* What GET /projects may answer: the ids of the projects, or no project.
ProjectLists == {<<1, 2>>, <<>>}

\* What GET /projects/p/tasks answers: the tasks of project p.
ServerTasks(p) ==
    [i \in 1..p |->
        [id |-> i, projectId |-> p, name |-> NameA,
         parentTaskId |-> IF i = 1 THEN None ELSE Some(1),
         dependsOn |-> <<>>, startDate |-> Some(Date1), dueDate |-> None]]

\* The message of the Error fetchJson throws for a response that is not ok.
RequestFailed == "Request failed: 502"

\* current ?? data[0]?.id ?? null
firstOrCurrent(current, data) ==
    IF current # None THEN current
    ELSE IF Len(data) > 0 THEN Some(data[1])
    ELSE None

\* The tasks effect runs again for project p: the cleanup of the previous
\* run clears its isActive, the new run issues getProjectTasks(p).
runTasksEffect(requests, p) ==
    [i \in 1..Len(requests) |-> [requests[i] EXCEPT !.isActive = FALSE]]
        \o <<[projectId |-> p, isActive |-> TRUE, state |-> "pending"]>>

\* setSelectedProjectId(next) and the effect it triggers when the selection
\* changes: setIsTasksLoading(true), setTasksError(null), a new request.
\* The cleanup of the previous run and the new run happen in one flush of
\* the effects, so no answer is handled between them.
SetSelected(next) ==
    /\ selectedProjectId' = next
    /\ IF next # selectedProjectId /\ next # None
       THEN /\ taskRequests' = runTasksEffect(taskRequests, Val(next))
            /\ isTasksLoading' = TRUE
            /\ tasksError' = None
       ELSE UNCHANGED <<taskRequests, isTasksLoading, tasksError>>

\* Variant: the isActive flag is not looked at.
responseNeverIgnored(request) == FALSE

\* if (!isActive) return, in then, catch and finally of the tasks effect.
responseIgnored(request) == ~request.isActive

\* if (allRequestId.current !== requestId) return, in handleLoadAllProjects.
allResponseIgnored(request) == allRequestId # request.requestId

\* The memos of the Gantt App recomputed for a new task list.
Rerendered(ts) ==
    /\ pc' = "rendered"
    /\ taskRows' = buildTaskRows(ts)
    /\ timelineRange' = computeTimelineRange(ts)
    /\ timelineTicks' = computeTimelineTicks(timelineRange')
    /\ bars' = computeBars(taskRows', timelineRange')
    /\ dependencyLines' = computeDependencyLines(taskRows', timelineRange', timelineWidth)
    /\ UNCHANGED <<timelineWidth, callStack>>

\* getProjects() of the mount effect resolves with data.
ProjectsLoaded(data) ==
    /\ projectsRequest = "pending"
    /\ projectsRequest' = "done"
    /\ projects' = data
    /\ SetSelected(firstOrCurrent(selectedProjectId, data))
    /\ isProjectsLoading' = FALSE
    /\ UNCHANGED <<engineVars, projectsError, allTasksByProject, isAllLoading, allError,
                   allRequestId, allRequests>>

\* getProjects() of the mount effect rejects.
ProjectsFailed ==
    /\ projectsRequest = "pending"
    /\ projectsRequest' = "done"
    /\ projectsError' = Some(RequestFailed)
    /\ isProjectsLoading' = FALSE
    /\ UNCHANGED <<engineVars, projects, selectedProjectId, tasksError, isTasksLoading,
                   taskRequests, allTasksByProject, isAllLoading, allError, allRequestId,
                   allRequests>>

\* A click on the card of project p, which is not the selected one.
SelectProject(p) ==
    /\ \E i \in 1..Len(projects) : projects[i] = p
    /\ selectedProjectId # Some(p)
    /\ Len(taskRequests) < MaxRequests
    /\ SetSelected(Some(p))
    /\ UNCHANGED <<engineVars, projects, projectsError, isProjectsLoading, allTasksByProject,
                   isAllLoading, allError, allRequestId, projectsRequest, allRequests>>

\* getProjectTasks of task request r resolves.
TasksLoaded(r) ==
    /\ taskRequests[r].state = "pending"
    /\ IF responseIgnored(taskRequests[r])
       THEN /\ taskRequests' = [taskRequests EXCEPT ![r].state = "dropped"]
            /\ UNCHANGED <<engineVars, isTasksLoading>>
       ELSE /\ taskRequests' = [taskRequests EXCEPT ![r].state = "applied"]
            /\ tasks' = ServerTasks(taskRequests[r].projectId)
            /\ Rerendered(tasks')
            /\ isTasksLoading' = FALSE
    /\ UNCHANGED <<projects, selectedProjectId, projectsError, tasksError, isProjectsLoading,
                   allTasksByProject, isAllLoading, allError, allRequestId, projectsRequest,
                   allRequests>>

\* getProjectTasks of task request r rejects.
TasksFailed(r) ==
    /\ taskRequests[r].state = "pending"
    /\ IF responseIgnored(taskRequests[r])
       THEN /\ taskRequests' = [taskRequests EXCEPT ![r].state = "dropped"]
            /\ UNCHANGED <<tasksError, isTasksLoading>>
       ELSE /\ taskRequests' = [taskRequests EXCEPT ![r].state = "failed"]
            /\ tasksError' = Some(RequestFailed)
            /\ isTasksLoading' = FALSE
    /\ UNCHANGED <<engineVars, projects, selectedProjectId, projectsError, isProjectsLoading,
                   allTasksByProject, isAllLoading, allError, allRequestId, projectsRequest,
                   allRequests>>

\* A click on "Load all projects & tasks"; the button is disabled while
\* isAllLoading.
LoadAllProjects ==
    /\ ~isAllLoading
    /\ Len(allRequests) < MaxLoadAll
    /\ allRequestId' = allRequestId + 1
    /\ allRequests' = Append(allRequests,
                             [requestId |-> allRequestId + 1, stage |-> "projects",
                              nextProjects |-> <<>>])
    /\ isAllLoading' = TRUE
    /\ allError' = None
    /\ UNCHANGED <<engineVars, projects, selectedProjectId, projectsError, tasksError,
                   isProjectsLoading, isTasksLoading, allTasksByProject, projectsRequest,
                   taskRequests>>

\* await getProjects() of load-all call q resolves: the task lists of all
\* projects are requested.
AllProjectsLoaded(q, data) ==
    /\ allRequests[q].stage = "projects"
    /\ allRequests' = [allRequests EXCEPT ![q].stage = "tasks", ![q].nextProjects = data]
    /\ UNCHANGED <<engineVars, projects, selectedProjectId, projectsError, tasksError,
                   isProjectsLoading, isTasksLoading, allTasksByProject, isAllLoading,
                   allError, allRequestId, projectsRequest, taskRequests>>

\* await Promise.all(...) of load-all call q resolves.
AllTasksLoaded(q) ==
    /\ allRequests[q].stage = "tasks"
    /\ IF allResponseIgnored(allRequests[q])
       THEN /\ allRequests' = [allRequests EXCEPT ![q].stage = "dropped"]
            /\ UNCHANGED <<projects, selectedProjectId, taskRequests, isTasksLoading,
                           tasksError, allTasksByProject, isAllLoading>>
       ELSE /\ allRequests' = [allRequests EXCEPT ![q].stage = "applied"]
            /\ projects' = allRequests[q].nextProjects
            /\ SetSelected(firstOrCurrent(selectedProjectId, allRequests[q].nextProjects))
            /\ allTasksByProject' =
                  [p \in {allRequests[q].nextProjects[i] :
                             i \in 1..Len(allRequests[q].nextProjects)} |-> ServerTasks(p)]
            /\ isAllLoading' = FALSE
    /\ UNCHANGED <<engineVars, projectsError, isProjectsLoading, allError, allRequestId,
                   projectsRequest>>

\* Either await of load-all call q rejects.
AllFailed(q) ==
    /\ allRequests[q].stage \in {"projects", "tasks"}
    /\ IF allResponseIgnored(allRequests[q])
       THEN /\ allRequests' = [allRequests EXCEPT ![q].stage = "dropped"]
            /\ UNCHANGED <<allError, isAllLoading>>
       ELSE /\ allRequests' = [allRequests EXCEPT ![q].stage = "failed"]
            /\ allError' = Some(RequestFailed)
            /\ isAllLoading' = FALSE
    /\ UNCHANGED <<engineVars, projects, selectedProjectId, projectsError, tasksError,
                   isProjectsLoading, isTasksLoading, allTasksByProject, allRequestId,
                   projectsRequest, taskRequests>>

\* The App after mounting: nothing loaded, getProjects() in flight; the
\* tasks effect found no selection.
InitFetch ==
    /\ tasks = <<>>
    /\ timelineWidth = 0
    /\ pc = "rendered"
    /\ taskRows = <<>>
    /\ callStack = <<>>
    /\ timelineRange = None
    /\ timelineTicks = <<>>
    /\ bars = <<>>
    /\ dependencyLines = <<>>
    /\ projects = <<>>
    /\ selectedProjectId = None
    /\ projectsError = None
    /\ tasksError = None
    /\ isProjectsLoading = TRUE
    /\ isTasksLoading = FALSE
    /\ allTasksByProject = <<>>
    /\ isAllLoading = FALSE
    /\ allError = None
    /\ allRequestId = 0
    /\ projectsRequest = "pending"
    /\ taskRequests = <<>>
    /\ allRequests = <<>>

NextFetch ==
    \/ \E data \in ProjectLists : ProjectsLoaded(data)
    \/ ProjectsFailed
    \/ \E p \in {1, 2} : SelectProject(p)
    \/ \E r \in 1..Len(taskRequests) : TasksLoaded(r)
    \/ \E r \in 1..Len(taskRequests) : TasksFailed(r)
    \/ LoadAllProjects
    \/ \E q \in 1..Len(allRequests) : \E data \in ProjectLists : AllProjectsLoaded(q, data)
    \/ \E q \in 1..Len(allRequests) : AllTasksLoaded(q)
    \/ \E q \in 1..Len(allRequests) : AllFailed(q)

SpecFetch == InitFetch /\ [][NextFetch]_vars

-----------------------------------------------------------------------------
(* Vocabulary of the outline claims *)

\* The positions of the tasks of ts that carry the id.
PositionsOf(ts, id) == {j \in 1..Len(ts) : ts[j].id = id}

\* Following parentTaskId through tasks present in ts, starting at t, ends
\* at a task with no parent within fuel steps.
RECURSIVE ChainEndsAtRoot(_, _, _)
ChainEndsAtRoot(ts, t, fuel) ==
    IF t.parentTaskId = None THEN TRUE
    ELSE IF fuel = 0 \/ PositionsOf(ts, Val(t.parentTaskId)) = {} THEN FALSE
    ELSE ChainEndsAtRoot(ts, ts[SetMin(PositionsOf(ts, Val(t.parentTaskId)))], fuel - 1)

Rooted(ts, t) == ChainEndsAtRoot(ts, t, Len(ts))

\* The rows (positions in the row list) that hold the task with the id.
RowsOf(id) == {i \in 1..Len(taskRows) : taskRows[i].task.id = id}

\* The row of the parent of row i, if the parent has a row.
ParentRows(i) ==
    IF taskRows[i].task.parentTaskId = None THEN {}
    ELSE RowsOf(Val(taskRows[i].task.parentTaskId))

\* Row j lies below row i in the hierarchy (i is a proper ancestor of j).
RECURSIVE IsBelow(_, _, _)
IsBelow(j, i, fuel) ==
    /\ fuel > 0
    /\ \E p \in ParentRows(j) : p = i \/ IsBelow(p, i, fuel - 1)

DescendantRows(i) == {j \in 1..Len(taskRows) : IsBelow(j, i, Len(taskRows))}

\* Rows i and j are siblings: the same parentTaskId.
Siblings(i, j) == taskRows[i].task.parentTaskId = taskRows[j].task.parentTaskId

\* The 1-based position of row i among its siblings, in row order.
SiblingPosition(i) == Cardinality({j \in 1..i : Siblings(i, j)})

Sign(x) == IF x < 0 THEN -1 ELSE IF x > 0 THEN 1 ELSE 0

-----------------------------------------------------------------------------
(* C1 *)

\* C1: a task gets a row if and only if its parentTaskId chain through the
\* tasks present ends at a task with no parent; a task with a dangling
\* parent and all its descendants get no row and none is promoted to a
\* root; no task gets more than one row; every row is a task of the input.
C1_RowIffChainEndsAtRoot ==
    pc = "rendered" =>
        /\ \A j \in 1..Len(tasks) :
              Cardinality({i \in 1..Len(taskRows) : taskRows[i].task = tasks[j]})
                  = IF Rooted(tasks, tasks[j]) THEN 1 ELSE 0
        /\ \A i \in 1..Len(taskRows) :
              /\ \E j \in 1..Len(tasks) : taskRows[i].task = tasks[j]
              /\ taskRows[i].depth = 0 => taskRows[i].task.parentTaskId = None

\* A rendered collection with a rooted task, a task with a dangling parent
\* and a child of that task.
C1_Witness ==
    /\ pc = "rendered"
    /\ Len(taskRows) >= 1
    /\ \E j, k \in 1..Len(tasks) :
          /\ tasks[j].parentTaskId = Some(DanglingId)
          /\ tasks[k].parentTaskId = Some(tasks[j].id)
          /\ RowsOf(tasks[j].id) = {}
          /\ RowsOf(tasks[k].id) = {}

-----------------------------------------------------------------------------
(* C2 *)

\* C2: a task with no parent has depth 0; a row whose parent has a row has
\* the parent's depth + 1 and comes after the parent row; the descendants
\* of every row form one contiguous block right behind it.
C2_DepthAndPreorder ==
    pc = "rendered" =>
        \A i \in 1..Len(taskRows) :
            /\ taskRows[i].task.parentTaskId = None => taskRows[i].depth = 0
            /\ \A p \in ParentRows(i) :
                  /\ taskRows[i].depth = taskRows[p].depth + 1
                  /\ p < i
            /\ DescendantRows(i) = (i + 1)..(i + Cardinality(DescendantRows(i)))

\* A root with a child, followed by another root, where the input lists the
\* second root before the child.
C2_Witness ==
    /\ pc = "rendered"
    /\ \E i, j, k \in 1..Len(taskRows) :
          /\ i < j /\ j < k
          /\ ParentRows(j) = {i}
          /\ taskRows[k].depth = 0
          /\ taskRows[k].task.id < taskRows[j].task.id

-----------------------------------------------------------------------------
(* C3 *)

\* C3: hierarchical numbers are pairwise distinct; a root's number is its
\* 1-based position among the roots, any other row's number is its parent's
\* number, a '.', and its 1-based position among its siblings.
C3_HierarchicalNumbers ==
    pc = "rendered" =>
        /\ \A i, j \in 1..Len(taskRows) :
              taskRows[i].number = taskRows[j].number => i = j
        /\ \A i \in 1..Len(taskRows) :
              /\ taskRows[i].task.parentTaskId = None =>
                    taskRows[i].number = ToStr(SiblingPosition(i))
              /\ \A p \in ParentRows(i) :
                    taskRows[i].number =
                        taskRows[p].number \o <<".">> \o ToStr(SiblingPosition(i))

\* The first task of the input is the first child of the second root: "2.1".
C3_Witness ==
    /\ pc = "rendered"
    /\ \E i \in 1..Len(taskRows) :
          /\ taskRows[i].number = <<"2", ".", "1">>
          /\ taskRows[i].task.id = 1

-----------------------------------------------------------------------------
(* C4 *)

\* C4: of two sibling rows, one with a resolved start never follows one
\* with a later or unresolved start, and on equal resolved starts (or both
\* unresolved) the names ascend in localeCompare order.
C4_SiblingOrder ==
    pc = "rendered" =>
        \A i, j \in 1..Len(taskRows) :
            (i < j /\ Siblings(i, j)) =>
                LET si == parseDate(taskRows[i].task.startDate)
                    sj == parseDate(taskRows[j].task.startDate)
                IN  /\ IsSome(sj) => (IsSome(si) /\ Val(si) <= Val(sj))
                    /\ si = sj => localeCompare(taskRows[i].task.name,
                                                taskRows[j].task.name) <= 0

\* Three siblings that the sort reorders: the input lists an unscheduled
\* task first, then two tasks with the same start and descending names.
C4_Witness ==
    /\ pc = "rendered"
    /\ \E i, j, k \in 1..Len(taskRows) :
          /\ i < j /\ j < k
          /\ Siblings(i, j) /\ Siblings(j, k)
          /\ parseDate(taskRows[k].task.startDate) = None
          /\ IsSome(parseDate(taskRows[i].task.startDate))
          /\ parseDate(taskRows[i].task.startDate) = parseDate(taskRows[j].task.startDate)
          /\ taskRows[i].task.name # taskRows[j].task.name
          /\ taskRows[k].task.id < taskRows[j].task.id
          /\ taskRows[j].task.id < taskRows[i].task.id

-----------------------------------------------------------------------------
(* C9 *)

-----------------------------------------------------------------------------
(* Vocabulary of the range claims *)

\* The tasks (positions) whose start date resolves.
Scheduled(ts) == {j \in 1..Len(ts) : IsSome(parseDate(ts[j].startDate))}

\* The end of a scheduled task's interval: the resolved due date, or the
\* start when the due date is missing or does not parse.
IntervalEnd(t) ==
    IF IsSome(parseDate(t.dueDate)) THEN Val(parseDate(t.dueDate))
    ELSE Val(parseDate(t.startDate))

\* A fraction is at least 1.
AtLeastOne(f) == f.den > 0 /\ f.num >= f.den

-----------------------------------------------------------------------------
(* C5 *)

\* C5: when a timeline range is present its end is not before its start,
\* and the duration used as a divisor is never zero.
C5_RangeOrdered ==
    (pc = "rendered" /\ timelineRange # None) =>
        /\ Val(timelineRange).endMs >= Val(timelineRange).startMs
        /\ rangeMsOf(Val(timelineRange)) # 0

-----------------------------------------------------------------------------
(* C6 *)

\* C6: over the whole flat collection, the range is absent exactly when no
\* start date resolves; otherwise its start is the least resolved start and
\* its end the greatest interval end of the tasks whose start resolves.
C6_RangeOverScheduledTasks ==
    pc = "rendered" =>
        /\ timelineRange = None <=> Scheduled(tasks) = {}
        /\ Scheduled(tasks) # {} =>
              /\ Val(timelineRange).startMs =
                    SetMin({Val(parseDate(tasks[j].startDate)) : j \in Scheduled(tasks)})
              /\ Val(timelineRange).endMs =
                    SetMax({IntervalEnd(tasks[j]) : j \in Scheduled(tasks)})

\* The range starts at a task that has no row, a task with a due date but no
\* start lies outside the range, and a task with an unparseable due date
\* ends the range at its start.
C6_Witness ==
    /\ pc = "rendered"
    /\ timelineRange # None
    /\ \E j, k, l \in 1..Len(tasks) :
          /\ RowsOf(tasks[j].id) = {}
          /\ parseDate(tasks[j].startDate) = Some(Val(timelineRange).startMs)
          /\ \A m \in Scheduled(tasks) \ {j} :
                Val(parseDate(tasks[m].startDate)) > Val(timelineRange).startMs
          /\ parseDate(tasks[k].startDate) = None
          /\ IsSome(parseDate(tasks[k].dueDate))
          /\ Val(parseDate(tasks[k].dueDate)) > Val(timelineRange).endMs
          /\ tasks[l].dueDate = Some("not a date")
          /\ parseDate(tasks[l].startDate) = Some(Val(timelineRange).endMs)

-----------------------------------------------------------------------------
(* C10 *)

\* C10: a row gets a bar with geometry exactly when its start date resolves
\* and a range is present, and every such bar is at least 1 percent wide.
C10_BarWidthAtLeastOne ==
    pc = "rendered" =>
        /\ Len(bars) = Len(taskRows)
        /\ \A i \in 1..Len(bars) :
              /\ bars[i].geometry <=>
                    (IsSome(parseDate(taskRows[i].task.startDate)) /\ timelineRange # None)
              /\ bars[i].geometry => AtLeastOne(bars[i].width)

\* Bars of a task whose due date resolves to its start, of a task whose due
\* date precedes its start (both floored to 1 percent) and of a task that
\* spans the whole range.
C10_Witness ==
    /\ pc = "rendered"
    /\ \E i, j, k \in 1..Len(bars) :
          /\ bars[i].geometry /\ bars[j].geometry /\ bars[k].geometry
          /\ parseDate(taskRows[i].task.dueDate) = parseDate(taskRows[i].task.startDate)
          /\ bars[i].width = Frac(1, 1)
          /\ IntervalEnd(taskRows[j].task) < Val(parseDate(taskRows[j].task.startDate))
          /\ bars[j].width = Frac(1, 1)
          /\ bars[k].width.num = 100 * bars[k].width.den
          /\ bars[k].width.den > 1

-----------------------------------------------------------------------------
(* Vocabulary of the dependency line claims *)

\* Every id a task or a dependsOn entry of the model may carry.
AllIds == TaskIds \cup {DanglingId}

\* The id of the line from dependency d to dependent t: `${d}-${t}`.
LineId(d, t) == ToStr(d) \o <<"-">> \o ToStr(t)

\* A line for (d, t) is in the list.
Emitted(d, t) == \E n \in 1..Len(dependencyLines) : dependencyLines[n].id = LineId(d, t)

\* The task with the id has a row and its start date resolves.
RowWithInterval(id) ==
    \E i \in RowsOf(id) : IsSome(parseDate(taskRows[i].task.startDate))

\* t lists d in dependsOn, both have a row, both resolve an interval.
Linked(d, t) ==
    /\ \E j \in 1..Len(tasks) :
          /\ tasks[j].id = t
          /\ \E k \in 1..Len(tasks[j].dependsOn) : tasks[j].dependsOn[k] = d
    /\ RowWithInterval(d)
    /\ RowWithInterval(t)

-----------------------------------------------------------------------------
(* C7 *)

\* C7 as stated: a line for (d, t) is emitted if and only if t lists d in
\* dependsOn, both have a row and both resolve an interval.
C7_LineIffLinked ==
    pc = "rendered" =>
        \A d, t \in AllIds : Emitted(d, t) <=> Linked(d, t)

\* C7 amended: the equivalence holds when the timeline width is not 0;
\* while the width is 0 no line is emitted at all.
C7_LineIffLinkedAndWidth ==
    pc = "rendered" =>
        /\ timelineWidth # 0 => \A d, t \in AllIds : Emitted(d, t) <=> Linked(d, t)
        /\ timelineWidth = 0 => dependencyLines = <<>>
        /\ \A n \in 1..Len(dependencyLines) :
              \E d, t \in AllIds : dependencyLines[n].id = LineId(d, t)

\* At a non-zero width one task depends on a task with a row (a line), and
\* another on a scheduled task left out for its dangling parent and on an
\* id no task carries (no line).
C7_Witness ==
    /\ pc = "rendered"
    /\ timelineWidth # 0
    /\ \E d, t \in TaskIds : Emitted(d, t) /\ d # t
    /\ \E j, k \in 1..Len(tasks) :
          /\ tasks[j].dependsOn = <<DanglingId, 3>>
          /\ RowWithInterval(tasks[j].id)
          /\ tasks[k].id = 3
          /\ tasks[k].parentTaskId = Some(DanglingId)
          /\ IsSome(parseDate(tasks[k].startDate))
          /\ ~Emitted(3, tasks[j].id)
          /\ ~Emitted(DanglingId, tasks[j].id)

-----------------------------------------------------------------------------
(* C8 *)

\* Task request r is answered in this step.
TaskAnswered(r) ==
    /\ r \in 1..Len(taskRequests)
    /\ taskRequests[r].state = "pending"
    /\ taskRequests'[r].state # "pending"

\* Load-all call q ends in this step.
AllAnswered(q) ==
    /\ q \in 1..Len(allRequests)
    /\ allRequests[q].stage \in {"projects", "tasks"}
    /\ allRequests'[q].stage \in {"applied", "failed", "dropped"}

\* A step in which the answer to a request that is not the most recently
\* started one arrives leaves tasks, error and loading state alone.
StaleAnswerChangesNothing ==
    /\ \A r \in 1..Len(taskRequests) :
          (TaskAnswered(r) /\ r # Len(taskRequests))
              => UNCHANGED <<tasks, tasksError, isTasksLoading>>
    /\ \A q \in 1..Len(allRequests) :
          (AllAnswered(q) /\ q # Len(allRequests))
              => UNCHANGED <<allTasksByProject, allError, isAllLoading, projects>>

\* Tasks are stored, an error is set and the loading flag is cleared only
\* by the answer to the most recently started request, and the stored tasks
\* are that answer's.
OnlyLatestAnswerApplies ==
    /\ (tasks' # tasks \/ (isTasksLoading /\ ~isTasksLoading')
            \/ (tasksError' # tasksError /\ tasksError' # None))
          => /\ TaskAnswered(Len(taskRequests))
             /\ tasks' # tasks =>
                   tasks' = ServerTasks(taskRequests[Len(taskRequests)].projectId)
    /\ (allTasksByProject' # allTasksByProject \/ (isAllLoading /\ ~isAllLoading')
            \/ (allError' # allError /\ allError' # None))
          => AllAnswered(Len(allRequests))

\* Once the latest request is answered without error, the stored tasks are
\* those of the selected project.
TasksOfSelection ==
    (~isTasksLoading /\ tasksError = None /\ selectedProjectId # None)
        => tasks = ServerTasks(Val(selectedProjectId))

\* C8: the answer to a request issued before a newer request started is
\* never applied to the tasks, error or loading state; the stored tasks come
\* only from the answer to the most recently started request, which alone
\* clears the loading flag.
C8_StaleResponseNeverApplied ==
    /\ []TasksOfSelection
    /\ [][StaleAnswerChangesNothing /\ OnlyLatestAnswerApplies]_vars

\* The answer to an earlier request for another project arrived after the
\* selection changed and was dropped, also after the answer to the newer
\* request was stored.
C8_Witness ==
    \E r, n \in 1..Len(taskRequests) :
        /\ r < n
        /\ n = Len(taskRequests)
        /\ taskRequests[r].state = "dropped"
        /\ taskRequests[n].state = "applied"
        /\ taskRequests[r].projectId # taskRequests[n].projectId
        /\ tasks = ServerTasks(taskRequests[n].projectId)
        /\ ~isTasksLoading

-----------------------------------------------------------------------------
(* C11 *)

\* C11: when no task of the collection has a start date that resolves, the
\* timeline range is absent, there are no ticks, every row's bar is the bare
\* placeholder without left / width, there are no dependency lines, and
\* every task whose parent chain ends at a root still has a row.
C11_NothingScheduled ==
    (pc = "rendered" /\ Scheduled(tasks) = {}) =>
        /\ timelineRange = None
        /\ timelineTicks = <<>>
        /\ Len(bars) = Len(taskRows)
        /\ \A i \in 1..Len(bars) : ~bars[i].geometry
        /\ dependencyLines = <<>>
        /\ \A j \in 1..Len(tasks) : Rooted(tasks, tasks[j]) => RowsOf(tasks[j].id) # {}

\* At a measured width: three tasks, none with a resolvable start, one with
\* an invalid start string and a valid due date, one depending on tasks that
\* have rows, one child row, all three with rows.
C11_Witness ==
    /\ pc = "rendered"
    /\ timelineWidth # 0
    /\ Scheduled(tasks) = {}
    /\ Len(taskRows) = 3
    /\ \E j, k, l \in 1..Len(tasks) :
          /\ tasks[j].startDate = Some("not a date")
          /\ IsSome(parseDate(tasks[j].dueDate))
          /\ tasks[k].dependsOn = <<2, 1>>
          /\ RowsOf(1) # {} /\ RowsOf(2) # {}
          /\ tasks[l].parentTaskId = Some(1)

-----------------------------------------------------------------------------
(* C12 *)

\* The fraction x is (ms - rangeStart) / duration * timelineWidth.
ProjectionOf(x, ms, duration) ==
    /\ duration # 0
    /\ x.den > 0
    /\ x.num * duration = (ms - Val(timelineRange).startMs) * timelineWidth * x.den

\* The y coordinate of the centre of the row at position i of the row list.
RowCentre(i) == (i - 1) * ROW_HEIGHT + ROW_HEIGHT \div 2

\* Every line runs from (projected end of d's interval, centre of d's row) to
\* (projected start of t's interval, centre of t's row), for the d and t of
\* its id and the projection with the divisor given by durationOf.
LinesAnchored(durationOf(_)) ==
    \A n \in 1..Len(dependencyLines) :
        \E d, t \in TaskIds : \E i \in RowsOf(d), j \in RowsOf(t) :
            LET line == dependencyLines[n]
                duration == durationOf(Val(timelineRange))
            IN  /\ line.id = LineId(d, t)
                /\ line.y1 = RowCentre(i)
                /\ line.y2 = RowCentre(j)
                /\ ProjectionOf(line.x1, IntervalEnd(taskRows[i].task), duration)
                /\ ProjectionOf(line.x2, Val(parseDate(taskRows[j].task.startDate)),
                                duration)

\* rangeEnd - rangeStart
RangeDuration(range) == range.endMs - range.startMs

\* rangeEnd - rangeStart, but 1 when that is less than 1
RangeDurationAtLeastOne(range) ==
    IF range.endMs - range.startMs < 1 THEN 1 ELSE range.endMs - range.startMs

\* C12 as stated: every line 'd-t' has y1 and y2 at the centres of the rows
\* of d and of t, x1 at the projection of the end of d's interval and x2 at
\* the projection of the start of t's interval, the projection being
\* (t - rangeStart) / (rangeEnd - rangeStart) * width.
C12_LinesAnchoredByRangeDuration ==
    pc = "rendered" => LinesAnchored(RangeDuration)

\* C12 amended: the same anchors, the divisor of the projection being the
\* range duration or 1 ms when the duration is less than 1 ms.
C12_LinesAnchoredByClampedDuration ==
    pc = "rendered" => LinesAnchored(RangeDurationAtLeastOne)

\* At width 50, a line whose dependency lies below its dependent, whose ends
\* are at two different x coordinates right of the range start, in a range
\* longer than 1 ms, the dependent being at another row than in the input.
C12_Witness ==
    /\ pc = "rendered"
    /\ timelineWidth = 50
    /\ timelineRange # None
    /\ RangeDuration(Val(timelineRange)) > 1
    /\ \E n \in 1..Len(dependencyLines) : \E t \in TaskIds :
          LET line == dependencyLines[n]
          IN  /\ line.id = LineId(2, t)
              /\ line.y1 > line.y2
              /\ line.x1.num > 0
              /\ line.x2.num > 0
              /\ line.x1 # line.x2
              /\ RowsOf(t) # {t}

-----------------------------------------------------------------------------
(* C13 *)

\* The dependsOn entries that yield a line, as <<row, position in dependsOn>>:
\* the dependent of the row resolves a start and the entry names a task with
\* a row and a resolved start.
LineEntries ==
    UNION {{<<r, k>> : k \in {k \in 1..Len(taskRows[r].task.dependsOn) :
                                /\ IsSome(parseDate(taskRows[r].task.startDate))
                                /\ RowWithInterval(taskRows[r].task.dependsOn[k])}}
           : r \in 1..Len(taskRows)}

\* Row first, then position in dependsOn.
EntryBefore(p, q) == p[1] < q[1] \/ (p[1] = q[1] /\ p[2] < q[2])

\* The place of an entry among the entries that yield a line.
EntryRank(p) == Cardinality({q \in LineEntries : EntryBefore(q, p)}) + 1

\* The rows of the dependent named by a line id, and the positions in that
\* row's dependsOn of the dependency named by it.
DependentRows(line) == {r \in 1..Len(taskRows) :
                          \E d \in AllIds : line.id = LineId(d, taskRows[r].task.id)}
DependencyPositions(line, r) ==
    {k \in 1..Len(taskRows[r].task.dependsOn) :
        line.id = LineId(taskRows[r].task.dependsOn[k], taskRows[r].task.id)}

\* C13: the lines are the entries that yield one, each entry once (repeated
\* ids included), in the order of the dependents' rows and, for one
\* dependent, of the positions in dependsOn; so for lines i < j either the
\* dependent of i has an earlier row than the dependent of j, or they share
\* the dependent and i's dependency stands earlier in dependsOn than j's.
C13_LinesInRowThenListOrder ==
    (pc = "rendered" /\ timelineWidth # 0) =>
        /\ Len(dependencyLines) = Cardinality(LineEntries)
        /\ \A p \in LineEntries :
              dependencyLines[EntryRank(p)].id
                  = LineId(taskRows[p[1]].task.dependsOn[p[2]], taskRows[p[1]].task.id)
        /\ \A i, j \in 1..Len(dependencyLines) :
              i < j =>
                \E ri \in DependentRows(dependencyLines[i]),
                   rj \in DependentRows(dependencyLines[j]) :
                    \/ ri < rj
                    \/ /\ ri = rj
                       /\ \E ki \in DependencyPositions(dependencyLines[i], ri),
                             kj \in DependencyPositions(dependencyLines[j], rj) : ki < kj

\* Four lines: the dependent of the first two comes later in the input than
\* the dependent of the last two; one dependent lists 2 before 1 and its
\* lines keep that order; the other lists one id twice and has two lines of
\* one id.
C13_Witness ==
    /\ pc = "rendered"
    /\ Len(dependencyLines) = 4
    /\ \E a, b \in 1..Len(tasks) :
          /\ a < b
          /\ tasks[a].dependsOn = <<2, 2>>
          /\ tasks[b].dependsOn = <<2, 1>>
          /\ dependencyLines[1].id = LineId(2, tasks[b].id)
          /\ dependencyLines[2].id = LineId(1, tasks[b].id)
          /\ dependencyLines[3].id = LineId(2, tasks[a].id)
          /\ dependencyLines[4] = dependencyLines[3]

-----------------------------------------------------------------------------
(* C14 *)

\* Following parentTaskId from t through tasks present in ts arrives at the
\* task with the id within fuel steps.
RECURSIVE ParentChainReaches(_, _, _, _)
ParentChainReaches(ts, t, id, fuel) ==
    IF t.parentTaskId = None \/ fuel = 0 THEN FALSE
    ELSE IF Val(t.parentTaskId) = id THEN TRUE
    ELSE IF PositionsOf(ts, Val(t.parentTaskId)) = {} THEN FALSE
    ELSE ParentChainReaches(ts, ts[SetMin(PositionsOf(ts, Val(t.parentTaskId)))], id,
                            fuel - 1)

\* t is on a parent cycle: its own parent chain comes back to it.
OnParentCycle(ts, t) == ParentChainReaches(ts, t, t.id, Len(ts))

\* While and after buildTaskRows runs: no task has been visited twice, no
\* task on a parent cycle has been visited, and the nesting of calls is at
\* most the number of tasks (plus the loop over the roots).
VisitBounded ==
    /\ \A j \in 1..Len(tasks) :
          /\ Cardinality({i \in 1..Len(taskRows) : taskRows[i].task = tasks[j]}) <= 1
          /\ OnParentCycle(tasks, tasks[j]) => RowsOf(tasks[j].id) = {}
    /\ Len(taskRows) <= Len(tasks)
    /\ Len(callStack) <= Len(tasks) + 1

\* C14: for every collection (ids are unique), buildTaskRows returns: the
\* traversal reaches its end, and all along no task is visited more than
\* once and no task on a parent cycle (a task that is its own parent
\* included) is visited or gets a row; the rows returned are those of the
\* recursive definition.
C14_VisitTerminates ==
    /\ []VisitBounded
    /\ [](pc = "rendered" => taskRows = buildTaskRows(tasks))
    /\ <>(pc = "rendered")

\* buildTaskRows has returned for a collection with a root and two tasks
\* that are each other's parent: one row.
C14_Witness ==
    /\ pc = "rendered"
    /\ callStack = <<>>
    /\ Len(taskRows) = 1
    /\ \E j, k \in 1..Len(tasks) :
          /\ j # k
          /\ tasks[j].parentTaskId = Some(tasks[k].id)
          /\ tasks[k].parentTaskId = Some(tasks[j].id)
          /\ OnParentCycle(tasks, tasks[j])

=============================================================================
